---- MODULE Spec2Model ----
(***************************************************************************)
(* A model of one run of the minion CLI: the coordinator (cli/run.rs,      *)
(* run), the control-plane server's agent endpoints (api/agent.rs), the    *)
(* container runtime (runtime/mod.rs, run_container) and the inquiry relay *)
(* loop (cli/run.rs, handle_inquiries).                                    *)
(*                                                                         *)
(* Strings are sequences of characters; a character is a one-character     *)
(* TLA+ string, except "LF" (line feed), "DQ" (double quote) and "BS"      *)
(* (backslash).                                                            *)
(***************************************************************************)
EXTENDS Integers, Sequences, FiniteSets, TLC

\* ------------------------------------------------------------------ bounds

\* The agent in the container issues at most MaxCalls requests in a run.
MaxCalls == 2

\* wait_until_ready probes the server at most MaxReadyTries times.
MaxReadyTries == 2

\* ----------------------------------------------------------------- strings

\* Question texts an agent may post (api/agent.rs InquiryPayload.inquiry): any
\* String, so also one of white space only.
Questions == { <<"q", " ">>, <<" ">> }

\* Answers a client other than the relay may post to /agent/inquiry_response.
Answers == { <<"a">> }

\* What the blocking read gives (cli/run.rs:155-164): a line, whose line feed
\* read_line keeps; a last line that end of input cut short, without line
\* feed; the empty String at end of input or on a read error.
HumanLines == { <<"y", "LF">>, <<"y">>, <<>> }

IsWhitespace(ch) == ch \in {" ", "LF"}

RECURSIVE TrimStart(_)
TrimStart(s) ==
  IF s = <<>> THEN <<>>
  ELSE IF IsWhitespace(Head(s)) THEN TrimStart(Tail(s)) ELSE s

RECURSIVE TrimEnd(_)
TrimEnd(s) ==
  IF s = <<>> THEN <<>>
  ELSE IF IsWhitespace(s[Len(s)]) THEN TrimEnd(SubSeq(s, 1, Len(s) - 1)) ELSE s

\* str::trim, as used on the polled question (cli/run.rs:126).
Trim(s) == TrimEnd(TrimStart(s))

\* serde_json's encoding of a string, as written by HttpResponse::json and by
\* reqwest's RequestBuilder::json: quoted, with quote, backslash and line
\* feed escaped.
RECURSIVE JsonEscape(_)
JsonEscape(s) ==
  IF s = <<>> THEN <<>>
  ELSE (CASE Head(s) = "LF" -> <<"BS", "n">>
          [] Head(s) = "DQ" -> <<"BS", "DQ">>
          [] Head(s) = "BS" -> <<"BS", "BS">>
          [] OTHER -> <<Head(s)>>) \o JsonEscape(Tail(s))

JsonEncode(s) == <<"DQ">> \o JsonEscape(s) \o <<"DQ">>

RECURSIVE JsonUnescape(_)
JsonUnescape(s) ==
  IF s = <<>> THEN <<>>
  ELSE IF Head(s) = "BS" /\ Len(s) >= 2
       THEN <<(IF s[2] = "n" THEN "LF" ELSE s[2])>> \o JsonUnescape(SubSeq(s, 3, Len(s)))
       ELSE <<Head(s)>> \o JsonUnescape(Tail(s))

\* web::Json<String>'s decoding of a request body that holds a JSON string.
JsonDecode(b) == JsonUnescape(SubSeq(b, 2, Len(b) - 1))

\* ------------------------------------------------------------------- state

VARIABLES
  runPc,        \* position of run (cli/run.rs:17-103)
  runResult,    \* "none" while running, then "ok" or "err"
  readyTries,   \* readiness probes made by wait_until_ready
  srv,          \* the server task: unspawned, starting, serving, resolved, failed
  srvResult,    \* the TaskOutcome the server task resolved with, or "none"
  shutdown_tx,  \* Mutex<Option<oneshot::Sender<TaskOutcome>>>: "Some" or "None"
  outcomes,     \* the TaskOutcomes sent on the one-shot outcome channel
  pending,      \* InquiryState.pending: NoInquiry or [question, chan]
  chan,         \* per inquiry channel: where its sender is and what it carried
  calls,        \* the requests: 0 is the relay's current one, 1..MaxCalls the agent's
  nCalls,       \* number of requests the agent has issued
  contState,    \* the container: none, alive, exited
  exitCode,     \* its exit code, -1 until it exits
  rcPc,         \* position of run_container (runtime/mod.rs:71-154)
  fwdDone,      \* the output forwarder task has finished
  relayPc,      \* position of handle_inquiries (cli/run.rs:105-192)
  permit,       \* stop_notify holds a stored notification
  notifyCount,  \* number of notify_one calls made by run
  relayQ,       \* the question the relay loop is showing
  relayA,       \* the line the human entered
  merges,       \* results of the squash_merge_branch invocations
  hist,         \* what had happened when the container exited and the server
                \* resolved, whether the relay's last answer post failed unsent,
                \* where the relay loop was when run signaled the stop, and
                \* whether the wait stream ended without a message
  locks,        \* holder of each tokio Mutex (a request id), or -1 when it is free
  router,       \* a routing table lookup: the Config, the identifier, the result
  git           \* a git helper call: the repository, the call, its result

vars == << runPc, runResult, readyTries, srv, srvResult, shutdown_tx, outcomes,
           pending, chan, calls, nCalls, contState, exitCode, rcPc, fwdDone,
           relayPc, permit, notifyCount, relayQ, relayA, merges, hist, locks,
           router, git >>

runVars    == << runPc, runResult, readyTries, notifyCount, merges >>
serverVars == << srv, srvResult >>
stateVars  == << shutdown_tx, outcomes, pending, chan, locks >>
callVars   == << calls, nCalls >>
contVars   == << contState, exitCode, rcPc, fwdDone >>
relayVars  == << relayPc, relayQ, relayA >>
pureVars   == << router, git >>

\* The variables of a run; the lookups and git calls of the pure helpers leave
\* them alone.
mainVars == << runVars, serverVars, stateVars, callVars, contVars, relayVars,
               permit, hist >>

CallIds  == 1 .. MaxCalls
RelayId  == 0
AllIds   == 0 .. MaxCalls

NoInquiry == [question |-> <<>>, chan |-> -1]
NoResp    == [status |-> "none", body |-> <<>>]
NoCall    == [kind |-> "none", arg |-> <<>>, pc |-> "idle", resp |-> NoResp,
              held |-> -1]
NoChan    == [sender |-> "none", value |-> <<>>]

TaskKinds == {"task_complete", "task_fail"}

\* The application data run_server registers: the outcome sender in its
\* Option, and an InquiryState whose slot is empty.
InitialAppData ==
  /\ shutdown_tx = "Some"
  /\ outcomes = <<>>
  /\ pending = NoInquiry
  /\ chan = [c \in AllIds |-> NoChan]
  /\ locks = [pending |-> -1, shutdown_tx |-> -1]

\* The state of a run when run is called.
InitRun ==
  /\ runPc = "connect"
  /\ runResult = "none"
  /\ readyTries = 0
  /\ srv = "unspawned"
  /\ srvResult = "none"
  /\ InitialAppData
  /\ calls = [c \in AllIds |-> NoCall]
  /\ nCalls = 0
  /\ contState = "none"
  /\ exitCode = -1
  /\ rcPc = "idle"
  /\ fwdDone = FALSE
  /\ relayPc = "unspawned"
  /\ permit = FALSE
  /\ notifyCount = 0
  /\ relayQ = <<>>
  /\ relayA = <<>>
  /\ merges = <<>>
  /\ hist = [exited |-> FALSE, taskCallsAtExit |-> 0, outcomesAtExit |-> 0,
             resolvedBeforeExit |-> FALSE, postUnsent |-> FALSE,
             relayAtNotify |-> "none", waitEnded |-> FALSE]

\* No lookup and no git helper call is under study.
NoRouter == [pc |-> "off"]
NoGit == [pc |-> "off"]

Init == InitRun /\ router = NoRouter /\ git = NoGit

\* The process is alive until run returns: exec then ends the process, by
\* returning or by the panic of expect (cli/mod.rs:73-83).
Alive == runPc # "returned"

\* exec: block_on(run(..)).expect("Failed to run task") panics, and the
\* process ends abnormally, when run returned an error.
ExecPanics == runPc = "returned" /\ runResult = "err"

\* -------------------------------------------------------------- coordinator

\* A return that drops the error.
ReturnSwallowsError(r) == runPc' = "returned" /\ runResult' = "ok"

\* run returns with result r.
Return(r) == runPc' = "returned" /\ runResult' = r

\* A step of run that the ? operator ends with an error when it fails.
Try(ok, next) ==
  IF ok THEN runPc' = next /\ runResult' = runResult ELSE Return("err")

\* LocalDockerRuntime::connect()?
Connect ==
  /\ runPc = "connect"
  /\ \E ok \in BOOLEAN : Try(ok, "bridge_ip")
  /\ UNCHANGED << pureVars, readyTries, notifyCount, merges, serverVars, stateVars,
                  callVars, contVars, relayVars, permit, hist >>

\* rt.bridge_network_ip().await?
BridgeNetworkIp ==
  /\ runPc = "bridge_ip"
  /\ \E ok \in BOOLEAN : Try(ok, "current_branch")
  /\ UNCHANGED << pureVars, readyTries, notifyCount, merges, serverVars, stateVars,
                  callVars, contVars, relayVars, permit, hist >>

\* current_branch_name(path)?
CurrentBranchName ==
  /\ runPc = "current_branch"
  /\ \E ok \in BOOLEAN : Try(ok, "create_branch")
  /\ UNCHANGED << pureVars, readyTries, notifyCount, merges, serverVars, stateVars,
                  callVars, contVars, relayVars, permit, hist >>

\* create_git_branch(path, &fork_branch)?
CreateGitBranch ==
  /\ runPc = "create_branch"
  /\ \E ok \in BOOLEAN : Try(ok, "image")
  /\ UNCHANGED << pureVars, readyTries, notifyCount, merges, serverVars, stateVars,
                  callVars, contVars, relayVars, permit, hist >>

\* rt.build_container_image(..).await? or rt.pull_container_image(..).await?
PrepareImage ==
  /\ runPc = "image"
  /\ \E ok \in BOOLEAN : Try(ok, "spawn_relay")
  /\ UNCHANGED << pureVars, readyTries, notifyCount, merges, serverVars, stateVars,
                  callVars, contVars, relayVars, permit, hist >>

\* tokio::spawn(handle_inquiries(..))
SpawnRelay ==
  /\ runPc = "spawn_relay"
  /\ runPc' = "spawn_server"
  /\ relayPc' = "top"
  /\ UNCHANGED << pureVars, runResult, readyTries, notifyCount, merges, serverVars,
                  stateVars, callVars, contVars, relayQ, relayA, permit, hist >>

\* tokio::spawn(crate::api::run_server(listener, ctx))
SpawnServer ==
  /\ runPc = "spawn_server"
  /\ runPc' = "wait_ready"
  /\ srv' = "starting"
  /\ UNCHANGED << pureVars, runResult, readyTries, notifyCount, merges, srvResult,
                  stateVars, callVars, contVars, relayVars, permit, hist >>

\* crate::api::wait_until_ready(&host_address).await?: a probe that is
\* answered ends the wait; one that is not is retried, MaxReadyTries times.
WaitUntilReady ==
  /\ runPc = "wait_ready"
  /\ IF srv = "serving"
     THEN runPc' = "join" /\ readyTries' = 0 /\ runResult' = runResult
     ELSE IF readyTries + 1 < MaxReadyTries
          THEN readyTries' = readyTries + 1 /\ UNCHANGED << runPc, runResult >>
          ELSE readyTries' = readyTries + 1 /\ Return("err")
  /\ UNCHANGED << pureVars, notifyCount, merges, serverVars, stateVars, callVars,
                  contVars, relayVars, permit, hist >>

\* try_join! resolves with an error as soon as one of its two futures does:
\* run_container's error is a container engine error ("err") or the nonzero
\* exit status ("exit_err").
JoinFailed == srv = "failed" \/ rcPc \in {"err", "exit_err"}

\* A join that the server's outcome alone decides.
JoinReadyServerOnly == srv = "resolved"

\* try_join! resolves with both values once both futures have succeeded.
JoinReady == srv = "resolved" /\ rcPc = "ok"

\* The outcome test of run: only TaskOutcome::Failure skips the merge.
SkipsMerge(outcome) == outcome = "Failure"

\* tokio::try_join!(server, rt.run_container(..))? when one of them failed.
JoinErr ==
  /\ runPc = "join"
  /\ JoinFailed
  /\ Return("err")
  /\ UNCHANGED << pureVars, readyTries, notifyCount, merges, serverVars, stateVars,
                  callVars, contVars, relayVars, permit, hist >>

\* tokio::try_join!(..) when both succeeded, and the test of task_outcome.
JoinOk ==
  /\ runPc = "join"
  /\ ~JoinFailed
  /\ JoinReady
  /\ runPc' = IF SkipsMerge(srvResult) THEN "notify" ELSE "merge"
  /\ UNCHANGED << pureVars, runResult, readyTries, notifyCount, merges, serverVars,
                  stateVars, callVars, contVars, relayVars, permit, hist >>

\* What squash_merge_branch may return: Ok, the dirty working tree error, the
\* merge conflict error, or the error of a git2 call that failed, which `?`
\* hands on (open, statuses, head, set_head, checkout_head, find_branch, peel,
\* merge_base, find_commit, tree, diff).
MergeResults == {"ok", "dirty", "conflict", "err"}

\* squash_merge_branch(path, &base_branch, &fork_branch)?
SquashMerge ==
  /\ runPc = "merge"
  /\ \E r \in MergeResults :
       /\ merges' = Append(merges, r)
       /\ Try(r = "ok", "notify")
  /\ UNCHANGED << pureVars, readyTries, notifyCount, serverVars, stateVars, callVars,
                  contVars, relayVars, permit, hist >>

\* A notification that is lost when no task is waiting for it.
NotifyOneLost(stored) == stored

\* Notify::notify_one: the waiting task is notified, and when no task is
\* waiting a permit is stored for the next notified().await; a Notified
\* future that is dropped after it was notified hands the permit back.
NotifyOne(stored) == TRUE

\* stop_notify.notify_one(): wakes the waiting loop, or is stored for its
\* next wait.
NotifyStop ==
  /\ runPc = "notify"
  /\ runPc' = "await_relay"
  /\ permit' = NotifyOne(permit)
  /\ notifyCount' = notifyCount + 1
  /\ hist' = [hist EXCEPT !.relayAtNotify = relayPc]
  /\ UNCHANGED << pureVars, runResult, readyTries, merges, serverVars, stateVars,
                  callVars, contVars, relayVars >>

\* let _ = inquiry_handle.await; then Ok(())
AwaitRelay ==
  /\ runPc = "await_relay"
  /\ relayPc = "exited"
  /\ Return("ok")
  /\ UNCHANGED << pureVars, readyTries, notifyCount, merges, serverVars, stateVars,
                  callVars, contVars, relayVars, permit, hist >>

RunStep ==
  \/ Connect \/ BridgeNetworkIp \/ CurrentBranchName \/ CreateGitBranch
  \/ PrepareImage \/ SpawnRelay \/ SpawnServer \/ WaitUntilReady
  \/ JoinErr \/ JoinOk \/ SquashMerge \/ NotifyStop \/ AwaitRelay

\* ------------------------------------------------------------------- server

\* run_server binds the listener and starts serving, or fails.
ServerStart ==
  /\ Alive
  /\ srv = "starting"
  /\ \E ok \in BOOLEAN : srv' = IF ok THEN "serving" ELSE "failed"
  /\ UNCHANGED << pureVars, runVars, srvResult, stateVars, callVars, contVars,
                  relayVars, permit, hist >>

\* run_server resolves with the TaskOutcome received on the outcome channel.
ServerResolve ==
  /\ Alive
  /\ srv = "serving"
  /\ outcomes # <<>>
  /\ srv' = "resolved"
  /\ srvResult' = outcomes[1]
  /\ hist' = [hist EXCEPT !.resolvedBeforeExit = (contState # "exited")]
  /\ UNCHANGED << pureVars, runVars, stateVars, callVars, contVars, relayVars, permit >>

\* The server task ends with an error (or panics) while serving.
ServerFail ==
  /\ Alive
  /\ srv = "serving"
  /\ srv' = "failed"
  /\ UNCHANGED << pureVars, runVars, srvResult, stateVars, callVars, contVars,
                  relayVars, permit, hist >>

\* ---------------------------------------------------------------- container

\* The exit statuses the container may end with: success and a failure.
ExitCodes == {0, 1}

\* A container run that is polled while run still waits for readiness.
ContainerMayStartUnready == runPc \in {"wait_ready", "join"}

\* run_container's future is created and polled inside try_join!, which run
\* reaches after wait_until_ready(..).await? has returned Ok.
ContainerMayStart == runPc = "join"

\* create_container(..).await? and start_container(..).await?
RcCreateStart ==
  /\ ContainerMayStart
  /\ rcPc = "idle"
  /\ \E ok \in BOOLEAN :
       IF ok THEN rcPc' = "attach" /\ contState' = "alive"
       ELSE rcPc' = "err" /\ contState' = contState
  /\ UNCHANGED << pureVars, runVars, serverVars, stateVars, callVars, exitCode, fwdDone,
                  relayVars, permit, hist >>

\* attach_container(..).await? and the spawn of the output forwarder.
RcAttach ==
  /\ runPc = "join"
  /\ rcPc = "attach"
  /\ \E ok \in BOOLEAN : rcPc' = IF ok THEN "waiting" ELSE "err"
  /\ UNCHANGED << pureVars, runVars, serverVars, stateVars, callVars, contState,
                  exitCode, fwdDone, relayVars, permit, hist >>

\* The container's process ends with an exit code.
ContainerExit ==
  /\ Alive
  /\ contState = "alive"
  /\ \E code \in ExitCodes : exitCode' = code
  /\ contState' = "exited"
  /\ hist' = [hist EXCEPT
       !.exited = TRUE,
       !.taskCallsAtExit =
          Cardinality({c \in CallIds : calls[c].kind \in TaskKinds}),
       !.outcomesAtExit = Len(outcomes)]
  /\ UNCHANGED << pureVars, runVars, serverVars, stateVars, callVars, rcPc, fwdDone,
                  relayVars, permit >>

\* The output forwarder's loop ends: the stream ended or yielded an error.
ForwarderFinish ==
  /\ Alive
  /\ rcPc \in {"waiting", "join_fwd"}
  /\ ~fwdDone
  /\ fwdDone' = TRUE
  /\ UNCHANGED << pureVars, runVars, serverVars, stateVars, callVars, contState,
                  exitCode, rcPc, relayVars, permit, hist >>

\* The test run_container makes of the wait message's status code.
ContainerFailed(code) == code > 0

\* wait_stream.next().await yields Some(Ok(..)) with the engine's wait
\* message, which carries the exit status, or Some(Err(..)), or None when the
\* stream ends without a message: then the `if let` is skipped and
\* run_container goes on to the forwarder as after status 0.
RcWait ==
  /\ runPc = "join"
  /\ rcPc = "waiting"
  /\ \/ /\ contState = "exited"
        /\ rcPc' = IF ContainerFailed(exitCode) THEN "exit_err" ELSE "join_fwd"
        /\ hist' = hist
     \/ rcPc' = "err" /\ hist' = hist
     \/ rcPc' = "join_fwd" /\ hist' = [hist EXCEPT !.waitEnded = TRUE]
  /\ UNCHANGED << pureVars, runVars, serverVars, stateVars, callVars, contState,
                  exitCode, fwdDone, relayVars, permit >>

\* let _ = output_forwarder.await; Ok(())
RcJoinForwarder ==
  /\ runPc = "join"
  /\ rcPc = "join_fwd"
  /\ fwdDone
  /\ rcPc' = "ok"
  /\ UNCHANGED << pureVars, runVars, serverVars, stateVars, callVars, contState,
                  exitCode, fwdDone, relayVars, permit, hist >>

\* ----------------------------------------------------------------- handlers

\* The requests a client holding the bearer token can make of the /agent scope.
Requests ==
  [kind : TaskKinds, arg : {<<>>}]
    \cup [kind : {"inquiry"}, arg : Questions]
    \cup [kind : {"get_inquiry"}, arg : {<<>>}]
    \cup [kind : {"inquiry_response"}, arg : {JsonEncode(a) : a \in Answers}]

\* A request as its handler receives it; a response is recorded by its status
\* and, where the body carries data (a question, an answer), its body.
NewCall(req) ==
  [kind |-> req.kind, arg |-> req.arg, pc |-> "recv", resp |-> NoResp, held |-> -1]

Respond(call, status, body) ==
  [call EXCEPT !.pc = "done", !.resp = [status |-> status, body |-> body]]

\* A lock can be acquired when no request holds it.
LockFree(l) == locks[l] = -1

\* A guard that lives on after the statement or block that declared it, so
\* that request c keeps the lock.
GuardOutlivesScope(c) == c

\* The holder of a lock once the guard request c took has gone out of scope,
\* at the end of its statement (agent.rs:57-61, 76-80, 113-118) or of its
\* block (agent.rs:94-100, 130-133): nobody.
AfterGuardScope(c) == -1

\* A request's future has ended: a guard it still held is dropped.
HandlerEnded(c) == [l \in DOMAIN locks |-> IF locks[l] = c THEN -1 ELSE locks[l]]

\* A read of the outcome sender that leaves it in place.
TakeLeavesSender(opt) == opt

\* Option::take on the outcome sender leaves None behind.
TakeLeaves(opt) == "None"

\* The outcome each endpoint sends.
OutcomeOf(kind) == IF kind = "task_complete" THEN "Completed" ELSE "Failure"

\* task_complete, task_fail: shutdown_tx.lock().await.take().expect(..); a
\* None panics, and the request ends without a response.
TaskTake(c, req) ==
  /\ req.kind \in TaskKinds
  /\ LockFree("shutdown_tx")
  /\ locks' = [locks EXCEPT !.shutdown_tx = AfterGuardScope(c)]
  /\ IF shutdown_tx = "Some"
     THEN /\ shutdown_tx' = TakeLeaves(shutdown_tx)
          /\ calls' = [calls EXCEPT ![c] = [NewCall(req) EXCEPT !.pc = "took"]]
     ELSE /\ shutdown_tx' = shutdown_tx
          /\ calls' = [calls EXCEPT ![c] = Respond(NewCall(req), "panic", <<>>)]
  /\ UNCHANGED << outcomes, pending, chan >>

\* task_complete, task_fail: tx.send(outcome).expect(..), then 200; the send
\* fails, and expect panics, when the receiving server task is gone.
TaskSend(c) ==
  /\ Alive
  /\ calls[c].kind \in TaskKinds
  /\ calls[c].pc = "took"
  /\ locks' = HandlerEnded(c)
  /\ IF srv = "failed"
     THEN /\ outcomes' = outcomes
          /\ calls' = [calls EXCEPT ![c] = Respond(@, "panic", <<>>)]
     ELSE /\ outcomes' = Append(outcomes, OutcomeOf(calls[c].kind))
          /\ calls' = [calls EXCEPT ![c] = Respond(@, "200", <<>>)]
  /\ UNCHANGED << pureVars, runVars, serverVars, shutdown_tx, pending, chan, nCalls,
                  contVars, relayVars, permit, hist >>

\* An overwrite that keeps the old Inquiry's sender alive.
OverwrittenKept(ch) == ch

\* What the assignment *guard = Some(..) does to the channel of the Inquiry
\* it overwrites: the old Inquiry is dropped, and its sender with it.
Overwritten(ch) == [ch EXCEPT !.sender = "dropped"]

\* A store that keeps an Inquiry that is already pending.
StoredFirstWins(slot, question, c) ==
  IF slot # NoInquiry THEN slot ELSE [question |-> question, chan |-> c]

\* The slot after *guard = Some(Inquiry { sender: tx, question }).
Stored(slot, question, c) == [question |-> question, chan |-> c]

\* inquiry: a new channel, and the slot set to the new Inquiry under the lock;
\* the handler then waits on the channel's receiver.
InquiryStore(c, req) ==
  /\ req.kind = "inquiry"
  /\ LockFree("pending")
  /\ locks' = [locks EXCEPT !.pending = AfterGuardScope(c)]
  /\ pending' = Stored(pending, req.arg, c)
  /\ chan' = [d \in AllIds |->
                IF d = c THEN [sender |-> "slot", value |-> <<>>]
                ELSE IF pending # NoInquiry /\ d = pending.chan
                     THEN Overwritten(chan[d])
                     ELSE chan[d]]
  /\ calls' = [calls EXCEPT ![c] = [NewCall(req) EXCEPT !.pc = "waiting"]]
  /\ UNCHANGED << shutdown_tx, outcomes >>

\* A reply that writes the answer as the raw body instead of as JSON.
InquiryReplyRaw(ch) ==
  IF ch.sender = "sent"
  THEN [status |-> "200", body |-> ch.value]
  ELSE [status |-> "500", body |-> <<>>]

\* The response of inquiry once rx.await has resolved: the answer as JSON, or
\* InternalServerError when the sender was dropped.
InquiryReply(ch) ==
  IF ch.sender = "sent"
  THEN [status |-> "200", body |-> JsonEncode(ch.value)]
  ELSE [status |-> "500", body |-> <<>>]

\* inquiry: rx.await resolves once the sender has sent or has been dropped.
InquiryAwait(c) ==
  /\ Alive
  /\ calls[c].kind = "inquiry"
  /\ calls[c].pc = "waiting"
  /\ chan[c].sender \in {"sent", "dropped"}
  /\ calls' = [calls EXCEPT ![c].pc = "done", ![c].resp = InquiryReply(chan[c])]
  /\ locks' = HandlerEnded(c)
  /\ UNCHANGED << pureVars, runVars, serverVars, shutdown_tx, outcomes, pending,
                  chan, nCalls, contVars, relayVars,
                  permit, hist >>

\* The body get_inquiry answers with for a given slot.
Peek(slot) == IF slot # NoInquiry THEN slot.question ELSE <<>>

\* A read that takes the Inquiry out of the slot.
PeekedTaken(slot) == NoInquiry

\* The slot after get_inquiry has read it: `if let Some(ref pending_inquiry) =
\* *guard` borrows the Inquiry and clones its question, so the slot keeps it.
Peeked(slot) == slot

\* get_inquiry: the pending question, or the empty string.
GetInquiry(c, req) ==
  /\ req.kind = "get_inquiry"
  /\ LockFree("pending")
  /\ locks' = [locks EXCEPT !.pending = AfterGuardScope(c)]
  /\ calls' = [calls EXCEPT ![c] = Respond(NewCall(req), "200", Peek(pending))]
  /\ pending' = Peeked(pending)
  /\ UNCHANGED << shutdown_tx, outcomes, chan >>

\* inquiry_response: guard.take() under the lock.
ResponseTake(c, req) ==
  /\ req.kind = "inquiry_response"
  /\ LockFree("pending")
  /\ locks' = [locks EXCEPT !.pending = AfterGuardScope(c)]
  /\ calls' = [calls EXCEPT ![c] =
                 [NewCall(req) EXCEPT !.pc = "took", !.held = pending.chan]]
  /\ pending' = NoInquiry
  /\ chan' = [d \in AllIds |->
                IF pending # NoInquiry /\ d = pending.chan
                THEN [chan[d] EXCEPT !.sender = "handler"]
                ELSE chan[d]]
  /\ UNCHANGED << shutdown_tx, outcomes >>

\* A status that is OK whether or not an inquiry was taken.
ResponseStatusAlwaysOk(held) == "200"

\* The status inquiry_response answers with: OK when an inquiry was taken,
\* BadRequest when none was pending.
ResponseStatus(held) == IF held # -1 THEN "200" ELSE "400"

\* inquiry_response: the answer sent on the taken inquiry's sender, if any.
ResponseSend(c) ==
  /\ Alive
  /\ calls[c].kind = "inquiry_response"
  /\ calls[c].pc = "took"
  /\ chan' = [d \in AllIds |->
                IF d = calls[c].held
                THEN [sender |-> "sent", value |-> JsonDecode(calls[c].arg)]
                ELSE chan[d]]
  /\ calls' = [calls EXCEPT ![c] = Respond(@, ResponseStatus(calls[c].held), <<>>)]
  /\ locks' = HandlerEnded(c)
  /\ UNCHANGED << pureVars, runVars, serverVars, shutdown_tx, outcomes, pending, nCalls,
                  contVars, relayVars, permit, hist >>

\* A request reaches its handler, which runs up to its first suspension
\* point or to the end of its critical section.
Receive(c, req) ==
  \/ TaskTake(c, req)
  \/ InquiryStore(c, req)
  \/ GetInquiry(c, req)
  \/ ResponseTake(c, req)

\* The server handles request req of the agent, or of any other client that
\* holds the token: the handlers know nothing of the container, so a request
\* is handled whenever the server serves, also one that arrives before the
\* container is created or that the agent sent before its container exited.
AgentSends(req) ==
  /\ Alive
  /\ srv = "serving"
  /\ nCalls < MaxCalls
  /\ Receive(nCalls + 1, req)
  /\ nCalls' = nCalls + 1
  /\ UNCHANGED << pureVars, runVars, serverVars, contVars, relayVars, permit, hist >>

\* A request to the agent API arrives at the server.
AgentRequest == \E req \in Requests : AgentSends(req)

\* -------------------------------------------------------------------- relay

\* A select! that does not see a notification stored before it was entered.
StopReadyNever(stored) == FALSE

\* stop_future, created by notified() at the top of the loop, is ready at the
\* first poll of select! exactly when a notification is stored.
StopReady(stored) == stored

\* The top of the loop: a stored notification completes stop_future at once,
\* before the fresh one-second sleep can.
RelaySelect ==
  /\ Alive
  /\ relayPc = "top"
  /\ IF StopReady(permit)
     THEN relayPc' = "exited" /\ permit' = FALSE
     ELSE relayPc' = "sleeping" /\ permit' = permit
  /\ UNCHANGED << pureVars, runVars, serverVars, stateVars, callVars, contVars,
                  relayQ, relayA, hist >>

\* select!: the stop notification arrives while the loop sleeps.
RelayStop ==
  /\ Alive
  /\ relayPc = "sleeping"
  /\ permit
  /\ relayPc' = "exited"
  /\ permit' = FALSE
  /\ UNCHANGED << pureVars, runVars, serverVars, stateVars, callVars, contVars,
                  relayQ, relayA, hist >>

\* select!: the sleep elapses first. The stop future is dropped with the
\* select!, and the loop sends GET inquiry_request: send().await is pending.
RelaySleepElapsed ==
  /\ Alive
  /\ relayPc = "sleeping"
  /\ relayPc' = "get"
  /\ UNCHANGED << pureVars, runVars, serverVars, stateVars, callVars, contVars, relayQ,
                  relayA, permit, hist >>

\* The GET reaches the server, whose get_inquiry handles it; the response is
\* on its way back.
RelayPoll ==
  /\ Alive
  /\ relayPc = "get"
  /\ srv = "serving"
  /\ GetInquiry(RelayId, [kind |-> "get_inquiry", arg |-> <<>>])
  /\ relayPc' = "polling"
  /\ UNCHANGED << pureVars, runVars, serverVars, nCalls, contVars, relayQ, relayA,
                  permit, hist >>

\* send().await and text().await return: the response's text is trimmed (a
\* body that cannot be read counts as empty) and a non-empty question is
\* shown to the human, whatever the slot holds by now.
RelayPollDone ==
  /\ Alive
  /\ relayPc = "polling"
  /\ calls[RelayId].pc = "done"
  /\ \E text \in {calls[RelayId].resp.body, <<>>} :
       IF Trim(text) # <<>>
       THEN relayQ' = Trim(text) /\ relayPc' = "reading"
       ELSE relayQ' = relayQ /\ relayPc' = "top"
  /\ calls' = [calls EXCEPT ![RelayId] = NoCall]
  /\ UNCHANGED << pureVars, runVars, serverVars, stateVars, nCalls, contVars, relayA,
                  permit, hist >>

\* An error arm that leaves the loop.
AfterRelayErrorBreak == "exited"

\* Where the loop is after the Err arm of a send() has printed the error
\* (cli/run.rs:180, 184-186): at the end of the iteration, so at the top of
\* the next one.
AfterRelayError == "top"

\* The GET's send() returns an error before the server has handled it; the
\* error is printed.
RelayPollFailed ==
  /\ Alive
  /\ relayPc = "get"
  /\ relayPc' = AfterRelayError
  /\ UNCHANGED << pureVars, runVars, serverVars, stateVars, callVars, contVars, relayQ,
                  relayA, permit, hist >>

\* The server has handled the GET and its response is lost: send() returns
\* an error, which is printed.
RelayPollLost ==
  /\ Alive
  /\ relayPc = "polling"
  /\ calls[RelayId].pc = "done"
  /\ calls' = [calls EXCEPT ![RelayId] = NoCall]
  /\ relayPc' = AfterRelayError
  /\ UNCHANGED << pureVars, runVars, serverVars, stateVars, nCalls, contVars, relayQ,
                  relayA, permit, hist >>

\* spawn_blocking: the human enters a line.
RelayRead ==
  /\ Alive
  /\ relayPc = "reading"
  /\ \E line \in HumanLines : relayA' = line
  /\ relayPc' = "post"
  /\ UNCHANGED << pureVars, runVars, serverVars, stateVars, callVars, contVars,
                  relayQ, permit, hist >>

\* POST inquiry_response with the line as a JSON string, which the server
\* starts to handle.
RelayPost ==
  /\ Alive
  /\ relayPc = "post"
  /\ srv = "serving"
  /\ ResponseTake(RelayId, [kind |-> "inquiry_response",
                            arg |-> JsonEncode(relayA)])
  /\ relayPc' = "posting"
  /\ hist' = [hist EXCEPT !.postUnsent = FALSE]
  /\ UNCHANGED << pureVars, runVars, serverVars, nCalls, contVars, relayQ, relayA,
                  permit >>

\* The POST's send() returns an error before the server has handled it; the
\* error is printed.
RelayPostFailed ==
  /\ Alive
  /\ relayPc = "post"
  /\ relayPc' = AfterRelayError
  /\ relayQ' = <<>>
  /\ relayA' = <<>>
  /\ hist' = [hist EXCEPT !.postUnsent = TRUE]
  /\ UNCHANGED << pureVars, runVars, serverVars, stateVars, callVars, contVars,
                  permit >>

\* The server has handled the POST and its response is lost: send() returns
\* an error, which is printed. The handler has taken the inquiry and sent the
\* answer all the same.
RelayPostLost ==
  /\ Alive
  /\ relayPc = "posting"
  /\ calls[RelayId].pc = "done"
  /\ calls' = [calls EXCEPT ![RelayId] = NoCall]
  /\ relayPc' = AfterRelayError
  /\ relayQ' = <<>>
  /\ relayA' = <<>>
  /\ UNCHANGED << pureVars, runVars, serverVars, stateVars, nCalls, contVars,
                  permit, hist >>

\* The server has handled the POST and the response arrives; the loop prints
\* its status and goes on.
RelayPostDone ==
  /\ Alive
  /\ relayPc = "posting"
  /\ calls[RelayId].pc = "done"
  /\ calls' = [calls EXCEPT ![RelayId] = NoCall]
  /\ relayPc' = "top"
  /\ relayQ' = <<>>
  /\ relayA' = <<>>
  /\ UNCHANGED << pureVars, runVars, serverVars, stateVars, nCalls, contVars,
                  permit, hist >>

\* The loop leaves through the stop branch of select!.
RelayExits == (RelaySelect \/ RelayStop) /\ relayPc' = "exited"

\* The loop goes on with an iteration instead of leaving.
RelayGoesOn ==
  \/ RelaySelect /\ relayPc' # "exited"
  \/ RelaySleepElapsed
  \/ RelayPoll \/ RelayPollFailed \/ RelayPollDone \/ RelayPollLost

\* ------------------------------------------------------------ specification

Next ==
  \/ Connect \/ BridgeNetworkIp \/ CurrentBranchName \/ CreateGitBranch
  \/ PrepareImage \/ SpawnRelay \/ SpawnServer \/ WaitUntilReady
  \/ JoinErr \/ JoinOk \/ SquashMerge \/ NotifyStop \/ AwaitRelay
  \/ ServerStart \/ ServerResolve \/ ServerFail
  \/ RcCreateStart \/ RcAttach \/ ContainerExit \/ ForwarderFinish
  \/ RcWait \/ RcJoinForwarder
  \/ AgentRequest
  \/ \E c \in AllIds : TaskSend(c)
  \/ \E c \in AllIds : InquiryAwait(c)
  \/ \E c \in AllIds : ResponseSend(c)
  \/ RelaySelect \/ RelayStop \/ RelaySleepElapsed
  \/ RelayPoll \/ RelayPollFailed \/ RelayPollDone \/ RelayPollLost
  \/ RelayRead \/ RelayPost \/ RelayPostFailed \/ RelayPostDone \/ RelayPostLost

Spec == Init /\ [][Next]_vars

\* The poll's response arrives and its body is read: a question that is not
\* blank after trimming is shown.
RelayPollOk ==
  RelayPollDone /\ (Trim(calls[RelayId].resp.body) # <<>> => relayPc' = "reading")

\* run_container's steps, polled inside try_join!, that do not wait for the
\* container: the engine calls and the join of the forwarder that has ended.
RcStep == RcCreateStart \/ RcAttach \/ RcJoinForwarder

\* The wait on a container that has exited ends.
RcWaitExited == RcWait /\ contState = "exited"

\* What the runtime and the assumptions of a run without network failures
\* give: run, the relay task, the server task and the handlers' futures are
\* polled when they can go on (tokio polls every ready task), every send() of
\* the relay returns, the relay's requests eventually get through while the
\* server serves, and the human enters a line when asked. The agent and the
\* container are under no such obligation: a container may run for ever, and
\* run_container then waits for ever; only once it has exited does the wait
\* end.
Fairness ==
  /\ WF_vars(RunStep)
  /\ WF_vars(RcStep)
  /\ WF_vars(RcWaitExited)
  /\ WF_vars(\E c \in AllIds : TaskSend(c))
  /\ WF_vars(ServerStart \/ ServerResolve)
  /\ WF_vars(RelaySelect)
  /\ WF_vars(RelayStop \/ RelaySleepElapsed)
  /\ WF_vars(RelayPoll \/ RelayPollFailed)
  /\ SF_vars(RelayPoll)
  /\ WF_vars(RelayPollDone \/ RelayPollLost)
  /\ SF_vars(RelayPollOk)
  /\ WF_vars(RelayRead)
  /\ WF_vars(RelayPost \/ RelayPostFailed)
  /\ SF_vars(RelayPost)
  /\ WF_vars(RelayPostDone \/ RelayPostLost)
  /\ WF_vars(\E c \in AllIds : ResponseSend(c))
  /\ WF_vars(\E c \in AllIds : InquiryAwait(c))

SpecFair == Spec /\ Fairness

\* ------------------------------------------------------------ routing table

\* LLMProvider::tag
Openrouter == <<"o", "p", "e", "n", "r", "o", "u", "t", "e", "r">>
Groq == <<"g", "r", "o", "q">>
GoogleGemini == <<"g", "o", "o", "g", "l", "e", "-", "g", "e", "m", "i", "n", "i">>
Cohere == <<"c", "o", "h", "e", "r", "e">>

tag(provider) ==
  CASE provider = "OpenRouter" -> Openrouter
    [] provider = "Groq" -> Groq
    [] provider = "GoogleGemini" -> GoogleGemini
    [] provider = "Cohere" -> Cohere

LLMProviders == {"OpenRouter", "Groq", "GoogleGemini", "Cohere"}

\* The Configs a config file can hold: the default provider and each key are
\* optional.
Configs ==
  [llm_provider : {"None"} \cup LLMProviders,
   openrouter_key : {"None", "sk-or"},
   groq_key : {"None", "gsk"},
   google_gemini_key : {"None", "AIza"},
   cohere_key : {"None", "co"}]

\* LLMProviderDetails
Details(endpoint, key) ==
  [api_chat_completions_endpoint |-> endpoint, api_key |-> key]

\* Config::llm_router_table's providers map: one entry per key that is set.
Providers(cfg) ==
  LET keyOf == [n \in {Openrouter, Groq, GoogleGemini, Cohere} |->
                  CASE n = Openrouter -> cfg.openrouter_key
                    [] n = Groq -> cfg.groq_key
                    [] n = GoogleGemini -> cfg.google_gemini_key
                    [] n = Cohere -> cfg.cohere_key]
      urlOf == [n \in {Openrouter, Groq, GoogleGemini, Cohere} |->
                  CASE n = Openrouter ->
                         "https://openrouter.ai/api/v1/chat/completions"
                    [] n = Groq ->
                         "https://api.groq.com/openai/v1/chat/completions"
                    [] n = GoogleGemini ->
                         "https://generativelanguage.googleapis.com/v1beta/openai/chat/completions"
                    [] n = Cohere ->
                         "https://api.cohere.ai/compatibility/v1/chat/completions"]
  IN [n \in {m \in DOMAIN keyOf : keyOf[m] # "None"} |->
        Details(urlOf[n], keyOf[n])]

\* Config::llm_router_table: None when no default provider is set, else the
\* table with the default provider's tag and the providers map.
llm_router_table(cfg) ==
  IF cfg.llm_provider = "None"
  THEN [some |-> FALSE, default_provider |-> <<>>, providers |-> Providers(cfg)]
  ELSE [some |-> TRUE, default_provider |-> tag(cfg.llm_provider),
        providers |-> Providers(cfg)]

\* Model identifiers a completion request may name.
Identifiers ==
  LET prefixes == {Openrouter, Groq, GoogleGemini, Cohere, <<"x">>, <<>>,
                   <<"G", "r", "o", "q">>}
      models == {<<"m">>, <<"a", "/", "b">>, <<>>}
  IN {pre \o <<"/">> \o m : pre \in prefixes, m \in models}
       \cup models \cup {Groq}

\* A split at the last separator instead of the first.
SplitOnceLast(str) ==
  LET at == {i \in 1 .. Len(str) : str[i] = "/"}
  IN IF at = {} THEN [some |-> FALSE, left |-> <<>>, right |-> <<>>]
     ELSE LET i == CHOOSE j \in at : \A k \in at : k <= j
          IN [some |-> TRUE, left |-> SubSeq(str, 1, i - 1),
              right |-> SubSeq(str, i + 1, Len(str))]

\* str::split_once('/'): the parts before and after the first separator.
SplitOnce(str) ==
  LET at == {i \in 1 .. Len(str) : str[i] = "/"}
  IN IF at = {} THEN [some |-> FALSE, left |-> <<>>, right |-> <<>>]
     ELSE LET i == CHOOSE j \in at : \A k \in at : j <= k
          IN [some |-> TRUE, left |-> SubSeq(str, 1, i - 1),
              right |-> SubSeq(str, i + 1, Len(str))]

\* The result of details_for_model: a model name and details, or the panic of
\* expect("Default provider not found").
Found(model, details) == [panic |-> FALSE, model |-> model, details |-> details]
Panicked == [panic |-> TRUE, model |-> <<>>, details |-> Details("", "")]

\* LLMRouterTable::details_for_model
details_for_model(table, provider_and_model) ==
  LET sp == SplitOnce(provider_and_model)
  IN IF sp.some /\ sp.left \in DOMAIN table.providers
     THEN Found(sp.right, table.providers[sp.left])
     ELSE IF table.default_provider \in DOMAIN table.providers
          THEN Found(provider_and_model, table.providers[table.default_provider])
          ELSE Panicked

\* A lookup starts from a Config and an identifier.
InitRouter ==
  /\ InitRun
  /\ git = NoGit
  /\ \E cfg \in Configs, id \in Identifiers :
       router = [pc |-> "config", config |-> cfg, id |-> id]

\* The routing table is built from the Config.
RouterTable ==
  /\ router.pc = "config"
  /\ LET t == llm_router_table(router.config)
     IN router' = [pc |-> IF t.some THEN "table" ELSE "no_table",
                   config |-> router.config, id |-> router.id, table |-> t]
  /\ UNCHANGED << mainVars, git >>

\* The identifier is looked up in the table.
RouterLookup ==
  /\ router.pc = "table"
  /\ router' = [pc |-> "done", config |-> router.config, id |-> router.id,
                table |-> router.table,
                out |-> details_for_model(router.table, router.id)]
  /\ UNCHANGED << mainVars, git >>

NextRouter == RouterTable \/ RouterLookup

SpecRouter == InitRouter /\ [][NextRouter]_vars

\* ---------------------------------------------------------------- git calls

\* A repository with one path. A content is "absent", a version of a regular
\* file, or "link" for a symbolic link. The history has two commits: c1, the
\* agent's commit, is a child of c0.
Contents == {"absent", "v1", "v2", "link"}
Commits == {"c0", "c1"}
BranchNames == {"main", "fork"}

\* The repositories a call may find: HEAD names a branch (possibly unborn) or
\* is detached at c0; refs maps the local branches to commits; tree gives the
\* path's content in each commit; index and wt are its content in the index
\* and in the working directory.
Repos ==
  UNION {[head : BranchNames \cup {"detached"},
          refs : [names -> Commits],
          tree : {t \in [Commits -> {"absent", "v1", "v2"}] : t["c0"] # "v2"},
          index : Contents,
          wt : Contents] : names \in SUBSET BranchNames}

\* repo.head(): HEAD resolves unless its branch is unborn.
HeadBorn(repo) == repo.head = "detached" \/ repo.head \in DOMAIN repo.refs

\* head.peel_to_commit()
HeadCommit(repo) == IF repo.head = "detached" THEN "c0" ELSE repo.refs[repo.head]

\* head.shorthand()
Shorthand(repo) == IF repo.head = "detached" THEN "HEAD" ELSE repo.head

\* A branch creation that overwrites an existing branch.
ForceAlways == TRUE

\* The force argument of repo.branch(branch_name, &commit, false).
Force == FALSE

\* A branch creation that also makes HEAD name the new branch.
BranchAndSwitch(repo, name, commit) ==
  IF name \in DOMAIN repo.refs /\ (~Force \/ repo.head = name)
  THEN [out |-> "err", repo |-> repo]
  ELSE [out |-> "ok",
        repo |-> [repo EXCEPT !.head = name,
                    !.refs = [n \in DOMAIN repo.refs \cup {name} |->
                                IF n = name THEN commit ELSE repo.refs[n]]]]

\* repo.branch(name, commit, force): fails when the branch exists and force
\* is not set, or when it is the checked-out branch.
Branch(repo, name, commit) ==
  IF name \in DOMAIN repo.refs /\ (~Force \/ repo.head = name)
  THEN [out |-> "err", repo |-> repo]
  ELSE [out |-> "ok",
        repo |-> [repo EXCEPT !.refs =
                    [n \in DOMAIN repo.refs \cup {name} |->
                       IF n = name THEN commit ELSE repo.refs[n]]]]

\* create_git_branch
create_git_branch(repo, branch_name) ==
  IF ~HeadBorn(repo) THEN [out |-> "err", repo |-> repo]
  ELSE Branch(repo, branch_name, HeadCommit(repo))

FileType(content) == IF content = "link" THEN "link" ELSE "blob"

\* A status list that includes untracked files.
IncludeUntrackedAlways == TRUE

\* status_opts.include_untracked(false)
IncludeUntracked == FALSE

\* The git2::Status flags of the path in repo.statuses(..): head to index,
\* and index to working directory; a path that is not in the index is
\* untracked in the working directory. Renames are not detected.
Statuses(repo) ==
  LET h == IF HeadBorn(repo) THEN repo.tree[HeadCommit(repo)] ELSE "absent"
      i == repo.index
      w == repo.wt
  IN {fl \in {"INDEX_NEW", "INDEX_MODIFIED", "INDEX_DELETED", "INDEX_TYPECHANGE",
              "WT_NEW", "WT_MODIFIED", "WT_DELETED", "WT_TYPECHANGE"} :
        CASE fl = "INDEX_NEW" -> h = "absent" /\ i # "absent"
          [] fl = "INDEX_DELETED" -> h # "absent" /\ i = "absent"
          [] fl = "INDEX_TYPECHANGE" ->
               h # "absent" /\ i # "absent" /\ FileType(h) # FileType(i)
          [] fl = "INDEX_MODIFIED" ->
               h # "absent" /\ i # "absent" /\ FileType(h) = FileType(i) /\ h # i
          [] fl = "WT_NEW" -> IncludeUntracked /\ i = "absent" /\ w # "absent"
          [] fl = "WT_DELETED" -> i # "absent" /\ w = "absent"
          [] fl = "WT_TYPECHANGE" ->
               i # "absent" /\ w # "absent" /\ FileType(i) # FileType(w)
          [] fl = "WT_MODIFIED" ->
               i # "absent" /\ w # "absent" /\ FileType(i) = FileType(w) /\ i # w}

\* The test squash_merge_branch makes of the status entries.
HasUnstagedChanges(repo) ==
  Statuses(repo) \cap {"WT_NEW", "WT_MODIFIED", "WT_DELETED", "WT_RENAMED",
                       "WT_TYPECHANGE"} # {}

\* repo.merge_base(one, two) in the two-commit history.
MergeBase(one, two) == IF one = two THEN one ELSE "c0"

\* repo.apply(&diff, ApplyLocation::WorkDir, ..) for the diff from content
\* from to content to: nothing to do when they are equal; else the working
\* file must be the diff's old side, and becomes its new side.
Apply(repo, from, to) ==
  IF from = to THEN [out |-> "ok", repo |-> repo]
  ELSE IF repo.wt = from THEN [out |-> "ok", repo |-> [repo EXCEPT !.wt = to]]
  ELSE [out |-> "conflict", repo |-> repo]

\* squash_merge_branch after the status test: HEAD is moved to base when it
\* names something else (checkout_head(None) is a safe checkout of the new
\* HEAD, which rewrites no file that is there), then the diff from the merge
\* base to fork is applied to the working directory.
MergeInto(repo, base, fork) ==
  IF ~HeadBorn(repo) THEN [out |-> "err", repo |-> repo]
  ELSE LET moved == IF Shorthand(repo) # base
                    THEN [repo EXCEPT !.head = base] ELSE repo
       IN IF ~HeadBorn(moved) \/ fork \notin DOMAIN moved.refs
          THEN [out |-> "err", repo |-> moved]
          ELSE LET base_commit == HeadCommit(moved)
                   fork_commit == moved.refs[fork]
                   merge_base == MergeBase(base_commit, fork_commit)
               IN Apply(moved, moved.tree[merge_base], moved.tree[fork_commit])

\* squash_merge_branch
squash_merge_branch(repo, base, fork) ==
  IF HasUnstagedChanges(repo) THEN [out |-> "dirty", repo |-> repo]
  ELSE MergeInto(repo, base, fork)

\* A git helper is called on a repository.
InitGit ==
  /\ InitRun
  /\ router = NoRouter
  /\ \E repo \in Repos : git = [pc |-> "ready", repo |-> repo]

\* create_git_branch(path, name)
GitCreateBranch ==
  /\ git.pc = "ready"
  /\ \E name \in BranchNames :
       LET r == create_git_branch(git.repo, name)
       IN git' = [pc |-> "done", fn |-> "create_git_branch", name |-> name,
                  before |-> git.repo, repo |-> r.repo, out |-> r.out]
  /\ UNCHANGED << mainVars, router >>

\* squash_merge_branch(path, "main", "fork")
GitSquashMerge ==
  /\ git.pc = "ready"
  /\ LET r == squash_merge_branch(git.repo, "main", "fork")
     IN git' = [pc |-> "done", fn |-> "squash_merge_branch", name |-> "fork",
                before |-> git.repo, repo |-> r.repo, out |-> r.out]
  /\ UNCHANGED << mainVars, router >>

\* current_branch_name: the checked-out branch, or an error when HEAD does
\* not resolve or is not a branch.
current_branch_name(repo) ==
  IF HeadBorn(repo) /\ repo.head # "detached"
  THEN [out |-> "ok", name |-> Shorthand(repo)]
  ELSE [out |-> "err", name |-> ""]

\* The fork branch of a run: a fresh identifier (Uuid::now_v7()).
ForkBranch == "fork"

\* How run's wait for the server and the container (run.rs:77-91) can end:
\* with the outcome Completed, with the outcome Failure, or with an error
\* (container engine, nonzero exit, server task, readiness).
RunEndings == {"Completed", "Failure", "Err"}

\* run, up to the fork: base_branch = current_branch_name(path)? and
\* create_git_branch(path, &fork_branch)? (run.rs:37-39).
GitRunFork ==
  /\ git.pc = "ready"
  /\ LET b == current_branch_name(git.repo)
         r == create_git_branch(git.repo, ForkBranch)
     IN git' = [pc |-> IF b.out = "ok" /\ r.out = "ok"
                       THEN "run_forked" ELSE "run_failed",
                start |-> git.repo, base |-> b.name,
                repo |-> IF b.out = "ok" THEN r.repo ELSE git.repo]
  /\ UNCHANGED << mainVars, router >>

\* The agent pushes its commit to the fork branch through the git endpoint
\* the server serves for the repository.
GitAgentPush ==
  /\ git.pc = "run_forked"
  /\ git.repo.refs[ForkBranch] # "c1"
  /\ git' = [git EXCEPT !.repo.refs[ForkBranch] = "c1"]
  /\ UNCHANGED << mainVars, router >>

\* run, from the join on (run.rs:79-103): an error is returned at once, a
\* Failure outcome skips the merge, a Completed outcome is followed by
\* squash_merge_branch(path, &base_branch, &fork_branch).
GitRunEnd ==
  /\ git.pc = "run_forked"
  /\ \E e \in RunEndings :
       LET r == IF e = "Err" \/ SkipsMerge(e)
                THEN [out |-> "none", repo |-> git.repo]
                ELSE squash_merge_branch(git.repo, git.base, ForkBranch)
       IN git' = [pc |-> "run_done", start |-> git.start, base |-> git.base,
                  forked |-> git.repo, ending |-> e, repo |-> r.repo,
                  out |-> r.out]
  /\ UNCHANGED << mainVars, router >>

NextGit ==
  \/ GitCreateBranch \/ GitSquashMerge
  \/ GitRunFork \/ GitAgentPush \/ GitRunEnd

SpecGit == InitGit /\ [][NextGit]_vars

\* --------------------------------------------------------------- properties

TaskCalls == {c \in CallIds : calls[c].kind \in TaskKinds}

InquiryCalls == {c \in CallIds : calls[c].kind = "inquiry"}

ResponseCalls == {r \in AllIds : calls[r].kind = "inquiry_response"}

\* C1: over any interleaving of /task/complete and /task/fail calls at most
\* one TaskOutcome is sent and at most one call gets a success response;
\* every call that arrives after the first finds the sender taken and ends
\* in a panic, without a response and without sending.
C1_SingleOutcome ==
  /\ Len(outcomes) <= 1
  /\ Cardinality({c \in TaskCalls : calls[c].resp.status = "200"}) <= 1
  /\ Cardinality({c \in TaskCalls : calls[c].pc = "took"}) <= 1
  /\ \A c, d \in TaskCalls :
        c < d => calls[d].pc = "done" /\ calls[d].resp.status = "panic"

C1_Witness ==
  /\ outcomes = <<"Completed">>
  /\ \E c, d \in TaskCalls :
        /\ c < d
        /\ calls[c].resp.status = "200"
        /\ calls[d].resp.status = "panic"

\* C2: when the container has exited with code 0 before any call to
\* /task/complete or /task/fail, and run_container has returned, run does not
\* merge and does not go on waiting: it has returned or can take a step.
C2_ExitZeroWithoutOutcomeAborts ==
  (hist.exited /\ exitCode = 0 /\ hist.taskCallsAtExit = 0 /\ rcPc = "ok") =>
     /\ merges = <<>>
     /\ runPc = "returned" \/ ENABLED RunStep

\* The state C2 is about: exit code 0, no outcome call, run at the join.
C2_Witness ==
  /\ hist.exited /\ exitCode = 0 /\ hist.taskCallsAtExit = 0
  /\ rcPc = "ok"
  /\ runPc = "join"
  /\ srv = "serving"

\* C3: squash_merge_branch is invoked only after the server resolved with
\* Completed; it is never invoked after a Failure outcome, nor after the
\* container exited nonzero before any outcome was sent.
C3_MergeOnlyAfterCompleted ==
  /\ (merges # <<>> \/ runPc = "merge") =>
        srv = "resolved" /\ srvResult = "Completed" /\ outcomes = <<"Completed">>
  /\ srvResult = "Failure" => merges = <<>> /\ runPc # "merge"
  /\ (hist.exited /\ exitCode > 0 /\ hist.outcomesAtExit = 0) =>
        merges = <<>> /\ runPc # "merge"
  /\ Len(merges) <= 1

\* The server resolved with Completed while the container had not exited.
CompletedBeforeExit ==
  srv = "resolved" /\ srvResult = "Completed" /\ hist.resolvedBeforeExit

C5_RelayStoppedBeforeReturn ==
  (runPc = "returned" /\ relayPc # "unspawned") =>
     notifyCount = 1 /\ relayPc = "exited"

\* C6: when the outcome is Completed and squash_merge_branch fails, run does
\* not return an error and the process does not end in a panic.
C6_MergeErrorNotFatal ==
  (runPc = "returned" /\ merges # <<>> /\ merges[1] # "ok") =>
     runResult = "ok" /\ ~ExecPanics

\* The answer a request to /agent/inquiry_response carried: the relay posts
\* the line the human entered.
AnswerOf(r) ==
  IF r = RelayId THEN relayA
  ELSE CHOOSE a \in Answers : JsonEncode(a) = calls[r].arg

\* C7: a pending inquiry is what /agent/inquiry_request returns; once
\* /agent/inquiry_response(a) has taken it, the response succeeds, the
\* suspended /agent/inquiry call returns exactly a (as JSON), and the slot is
\* empty unless a later inquiry was posted.
C7_RoundTrip ==
  /\ pending # NoInquiry =>
       /\ pending.chan \in InquiryCalls
       /\ calls[pending.chan].pc = "waiting"
       /\ Peek(pending) = calls[pending.chan].arg
  /\ \A r \in ResponseCalls :
       (calls[r].pc = "done" /\ calls[r].held # -1) =>
          LET c == calls[r].held IN
            /\ calls[r].resp.status = "200"
            /\ chan[c].sender = "sent"
            /\ pending.chan # c
            /\ (\A d \in InquiryCalls : d <= c) =>
                 pending = NoInquiry /\ Peek(pending) = <<>>
            /\ calls[c].pc = "waiting" => (Alive => ENABLED InquiryAwait(c))
            /\ calls[c].pc = "done" =>
                 /\ calls[c].resp.status = "200"
                 /\ JsonDecode(calls[c].resp.body) = AnswerOf(r)

C7_Witness ==
  /\ calls[RelayId].kind = "inquiry_response"
  /\ calls[RelayId].pc = "done"
  /\ calls[RelayId].held = 1
  /\ relayA = <<"y", "LF">>
  /\ calls[1].pc = "done"
  /\ calls[1].resp = [status |-> "200", body |-> <<"DQ", "y", "BS", "n", "DQ">>]
  /\ pending = NoInquiry

\* C8: the steps of an /agent/inquiry_response request that found no pending
\* inquiry leave the slot empty, send on no channel, leave the outcome sender
\* and the server as they were, and end in status 400.
C8_NoPendingIsBadRequest ==
  [][\A r \in AllIds :
       (/\ calls'[r] # calls[r]
        /\ calls'[r].kind = "inquiry_response"
        /\ calls'[r].held = -1) =>
          /\ UNCHANGED << pending, chan, shutdown_tx, outcomes, srv, srvResult >>
          /\ calls'[r].pc = "took" => pending = NoInquiry
          /\ calls'[r].pc = "done" => calls'[r].resp.status = "400"]_vars

C8_Witness ==
  /\ srv = "serving"
  /\ \E r \in ResponseCalls, d \in CallIds :
       /\ calls[r].held = -1
       /\ calls[r].resp.status = "400"
       /\ d > r
       /\ calls[d].resp.status = "200"

\* The inquiry request that arrived last.
LastInquiry == CHOOSE c \in InquiryCalls : \A d \in InquiryCalls : d <= c

\* C9: at most one Inquiry is held by the slot, and a pending Inquiry is
\* always the one posted last: a post made while another is pending replaces
\* it, with its question and its channel, and /agent/inquiry_request returns
\* the new question.
C9_OnePendingLatestWins ==
  /\ Cardinality({c \in AllIds : chan[c].sender = "slot"}) <= 1
  /\ pending # NoInquiry <=> \E c \in AllIds : chan[c].sender = "slot"
  /\ pending # NoInquiry =>
       /\ chan[pending.chan].sender = "slot"
       /\ pending = [question |-> calls[LastInquiry].arg, chan |-> LastInquiry]
       /\ Peek(pending) = calls[LastInquiry].arg

C9_Witness ==
  \E c, d \in InquiryCalls :
    /\ c < d
    /\ calls[c].arg # calls[d].arg
    /\ chan[c].sender = "dropped"
    /\ pending.chan = d
    /\ Peek(pending) = calls[d].arg

\* An inquiry that was still pending when a later one was posted.
WasReplaced(c) ==
  /\ c \in InquiryCalls
  /\ \E d \in InquiryCalls : d > c
  /\ chan[c].sender \notin {"handler", "sent"}

\* C10 as claimed: the request of a replaced inquiry never gets a response.
C10_ReplacedNeverAnswered ==
  \A c \in CallIds :
    WasReplaced(c) => calls[c].pc = "waiting" /\ calls[c].resp = NoResp

\* C10 as amended: the sender of a replaced inquiry has been dropped, so its
\* request never gets an answer: it is ready to end, or has ended, with
\* status 500.
C10_ReplacedGetsError ==
  \A c \in CallIds :
    WasReplaced(c) =>
      /\ chan[c].sender = "dropped"
      /\ \/ calls[c].pc = "waiting" /\ (Alive => ENABLED InquiryAwait(c))
         \/ calls[c].pc = "done" /\ calls[c].resp = [status |-> "500", body |-> <<>>]

C10_Witness ==
  \E c \in CallIds :
    /\ WasReplaced(c)
    /\ calls[c].pc = "done"
    /\ calls[c].resp.status = "500"
    /\ Alive

\* C11 as claimed: once the stop notification has fired the loop can exit at
\* once, in whatever state it is, a human read included.
C11_StopExitsInAnyState ==
  (permit /\ Alive /\ relayPc \notin {"unspawned", "exited"}) =>
     ENABLED RelayExits

\* C11 as amended: the loop sees the stop notification only at its select. At
\* the top of the loop it exits without sleeping or polling; while it sleeps
\* it can exit without waiting out the interval; once the sleep has elapsed
\* and the work of an iteration is under way (the poll's request is sent or
\* its response is on its way, the human's line is read, the answer is
\* posted) it cannot exit before that work is done.
C11_StopObservedAtSelect ==
  (permit /\ Alive) =>
     /\ relayPc = "top" => ENABLED RelayExits /\ ~ENABLED RelayGoesOn
     /\ relayPc = "sleeping" => ENABLED RelayExits
     /\ relayPc \in {"get", "polling", "reading", "post", "posting"} =>
          ~ENABLED RelayExits

C11_Witness ==
  /\ permit
  /\ runPc = "await_relay"
  /\ relayPc = "reading"
  /\ relayQ # <<>>

\* The identifier is prefix, a separator, and more.
HasPrefix(id, prefix) ==
  /\ Len(id) > Len(prefix)
  /\ SubSeq(id, 1, Len(prefix)) = prefix
  /\ id[Len(prefix) + 1] = "/"

\* C12: a looked-up identifier p/m whose p is a key of the providers map gets
\* the details stored for p and the model name m, everything after the first
\* separator.
C12_PrefixSelectsProvider ==
  router.pc = "done" =>
    \A prov \in DOMAIN router.table.providers :
      HasPrefix(router.id, prov) =>
        /\ ~router.out.panic
        /\ router.out.details = router.table.providers[prov]
        /\ router.out.model = SubSeq(router.id, Len(prov) + 2, Len(router.id))

C12_Witness ==
  /\ router.pc = "done"
  /\ router.id = Groq \o <<"/", "a", "/", "b">>
  /\ router.table.default_provider = Openrouter
  /\ router.out =
       Found(<<"a", "/", "b">>,
             Details("https://api.groq.com/openai/v1/chat/completions", "gsk"))

\* C13: a looked-up identifier that has no separator, or whose part before
\* the first separator is not a key of the providers map, gets the details of
\* the default provider and itself, unchanged, as the model name.
C13_FallsBackToDefault ==
  (/\ router.pc = "done"
   /\ \A prov \in DOMAIN router.table.providers : ~HasPrefix(router.id, prov)) =>
     /\ ~router.out.panic
     /\ router.out.model = router.id
     /\ router.table.default_provider \in DOMAIN router.table.providers
     /\ router.out.details = router.table.providers[router.table.default_provider]

\* The path is tracked and has a change that is not committed: its index
\* entry differs from HEAD, or its working file differs from its index entry.
TrackedChanged(repo) ==
  LET h == IF HeadBorn(repo) THEN repo.tree[HeadCommit(repo)] ELSE "absent"
  IN \/ h # repo.index
     \/ repo.index # "absent" /\ repo.wt # repo.index

\* The path is tracked and its working file differs from its index entry.
UnstagedChange(repo) == repo.index # "absent" /\ repo.wt # repo.index

MergeCalled == git.pc = "done" /\ git.fn = "squash_merge_branch"

\* C14: squash_merge_branch on a repository whose tracked file is new,
\* modified, deleted or type-changed fails with the dirty working tree error
\* and leaves the repository as it was; an untracked file alone does not make
\* it fail so.
C14_AnyTrackedChangeRejected ==
  MergeCalled =>
    /\ TrackedChanged(git.before) => git.out = "dirty" /\ git.repo = git.before
    /\ ~TrackedChanged(git.before) => git.out # "dirty"

\* What the status test does ensure: squash_merge_branch on a repository whose
\* tracked file has an unstaged change fails with the dirty working tree
\* error and leaves the repository as it was; changes that are staged only,
\* and an untracked file, do not make it fail so.
UnstagedChangeRejected ==
  MergeCalled =>
    /\ UnstagedChange(git.before) => git.out = "dirty" /\ git.repo = git.before
    /\ ~UnstagedChange(git.before) => git.out # "dirty"

UnstagedChangeWitness ==
  /\ MergeCalled
  /\ git.before.head = "main"
  /\ git.before.refs = [n \in BranchNames |-> IF n = "main" THEN "c0" ELSE "c1"]
  /\ git.before.tree = [c \in Commits |-> IF c = "c0" THEN "v1" ELSE "v2"]
  /\ git.before.index = "v1"
  /\ git.before.wt = "v2"
  /\ git.out = "dirty"
  /\ git.repo = git.before

CreateCalled == git.pc = "done" /\ git.fn = "create_git_branch"

\* C17: create_git_branch on a repository whose HEAD resolves and that has no
\* branch of the given name succeeds, and the repository differs only in the
\* new branch, which points at HEAD's commit; when the branch exists the call
\* fails and the repository is as it was.
C17_BranchCreatedAtHead ==
  CreateCalled =>
    /\ git.name \in DOMAIN git.before.refs =>
          git.out = "err" /\ git.repo = git.before
    /\ (git.name \notin DOMAIN git.before.refs /\ HeadBorn(git.before)) =>
          /\ git.out = "ok"
          /\ DOMAIN git.repo.refs = DOMAIN git.before.refs \cup {git.name}
          /\ git.repo.refs[git.name] = HeadCommit(git.before)
          /\ \A n \in DOMAIN git.before.refs : git.repo.refs[n] = git.before.refs[n]
          /\ git.repo.head = git.before.head
          /\ git.repo.index = git.before.index
          /\ git.repo.wt = git.before.wt
          /\ git.repo.tree = git.before.tree

C17_Witness ==
  /\ CreateCalled
  /\ git.name = "fork"
  /\ git.before.head = "main"
  /\ DOMAIN git.before.refs = {"main"}
  /\ git.out = "ok"
  /\ git.repo.refs["fork"] = git.before.refs["main"]
  /\ git.repo.head = "main"
  /\ git.repo.wt = "v2"
  /\ git.repo.index = "v1"

\* C15: when the container has exited with a nonzero code the wait of
\* run_container ends, and it ends in an error, never in the join of the
\* forwarder; the nonzero-status error is returned only for a nonzero exit;
\* run_container returns Ok only when the wait has ended, with the container
\* exited or the wait stream at its end, and the output forwarder has finished.
C15_NonzeroExitIsError ==
  /\ (contState = "exited" /\ exitCode > 0 /\ rcPc = "waiting" /\ runPc = "join") =>
        /\ ENABLED RcWait
        /\ ~ENABLED (RcWait /\ rcPc' = "join_fwd")
  /\ rcPc = "exit_err" => contState = "exited" /\ exitCode > 0
  /\ rcPc = "ok" => fwdDone /\ (contState = "exited" \/ hist.waitEnded)

\* C16: a step of run at connect, bridge_network_ip or create_git_branch
\* either goes on or returns an error, and in both cases leaves the relay loop
\* and the server unspawned and the container not run; once run has returned
\* nothing is started any more.
C16_EarlyFailureStartsNothing ==
  [][/\ runPc \in {"connect", "bridge_ip", "create_branch"} =>
          /\ runPc' = "returned" => runResult' = "err"
          /\ relayPc' = "unspawned"
          /\ srv' = "unspawned"
          /\ contState' = "none"
          /\ rcPc' = "idle"
     /\ runPc = "returned" => FALSE]_vars

C16_Witness ==
  /\ runPc = "returned"
  /\ runResult = "err"
  /\ relayPc = "unspawned"
  /\ srv = "unspawned"
  /\ contState = "none"
  /\ rcPc = "idle"

\* C18 as claimed: while the container is alive after an outcome was
\* recorded, run is still at the join: it has taken no merge or abort step
\* and has not returned.
C18_WaitsForContainerAlways ==
  (outcomes # <<>> /\ contState = "alive") => runPc = "join"

\* C18 as amended: while the container is alive after an outcome was
\* recorded, run is still at the join, or it has returned the error of a
\* failed server task or container-engine call, or run_container has returned
\* Ok because the wait stream ended without a message and the forwarder
\* finished; only in that last case has run taken a merge step or signaled
\* the relay.
C18_WaitsForContainerUnlessError ==
  (outcomes # <<>> /\ contState = "alive") =>
     /\ runPc \in {"join", "merge", "notify", "await_relay", "returned"}
     /\ (merges # <<>> \/ notifyCount > 0 \/ runPc \in {"merge", "notify", "await_relay"}) =>
          rcPc = "ok" /\ hist.waitEnded /\ fwdDone /\ srv = "resolved"
     /\ (runPc = "returned" /\ notifyCount = 0) =>
          /\ runResult = "err"
          /\ srv = "failed" \/ rcPc = "err" \/ merges # <<>>

C18_Witness ==
  /\ outcomes = <<"Completed">>
  /\ srv = "resolved"
  /\ contState = "alive"
  /\ rcPc = "waiting"
  /\ runPc = "join"

\* C19: the container is created only when the server task was launched and
\* has answered the readiness probe, and when the readiness probe has given
\* up run has returned an error and the container was never started.
C19_ContainerAfterReadiness ==
  /\ (rcPc # "idle" \/ contState # "none") =>
        srv \in {"serving", "resolved", "failed"} /\ readyTries = 0
  /\ runPc \notin {"join", "merge", "notify", "await_relay", "returned"} =>
        rcPc = "idle" /\ contState = "none"
  /\ readyTries = MaxReadyTries =>
        /\ runPc = "returned" /\ runResult = "err"
        /\ rcPc = "idle" /\ contState = "none"

C19_Witness ==
  /\ readyTries = MaxReadyTries
  /\ srv = "starting"
  /\ runPc = "returned"
  /\ runResult = "err"
  /\ contState = "none"

\* C20: no request holds the pending-inquiry lock or the outcome-sender lock
\* between two of its steps, so while an inquiry is suspended the lock is
\* free and the relay's poll and post can take it.
C20_NoLockAcrossSuspension ==
  /\ \A l \in DOMAIN locks : LockFree(l)
  /\ (\E c \in InquiryCalls : calls[c].pc = "waiting") =>
        /\ LockFree("pending")
        /\ (Alive /\ srv = "serving" /\ relayPc = "get") => ENABLED RelayPoll
        /\ (Alive /\ srv = "serving" /\ relayPc = "post") => ENABLED RelayPost

C20_Witness ==
  \E c \in InquiryCalls, d \in CallIds :
    /\ calls[c].pc = "waiting"
    /\ d > c
    /\ calls[d].kind = "get_inquiry"
    /\ calls[d].resp = [status |-> "200", body |-> calls[c].arg]
    /\ relayPc = "posting"
    /\ calls[RelayId].pc = "took"

\* A request to /agent/inquiry_request is served: the agent's, or the poll of
\* the relay loop.
AgentGetInquiry == AgentSends([kind |-> "get_inquiry", arg |-> <<>>])

\* C21: a request to /agent/inquiry_request cannot change the pending slot,
\* neither its question nor its answer channel, and answers with the pending
\* question's text, or with the empty string when none is pending; the relay
\* shows the text of its poll's response, trimmed, unless the body could not
\* be read. So a second request finds the slot the first one found.
C21_InquiryRequestOnlyObserves ==
  /\ ~ENABLED (AgentGetInquiry /\
                 \/ pending' # pending \/ chan' # chan
                 \/ calls'[nCalls'].resp # [status |-> "200", body |-> Peek(pending)])
  /\ ~ENABLED (RelayPoll /\
                 \/ pending' # pending \/ chan' # chan
                 \/ calls'[RelayId].resp # [status |-> "200", body |-> Peek(pending)])
  /\ ~ENABLED (RelayPollDone /\
                 \/ pending' # pending \/ chan' # chan
                 \/ relayPc' = "reading" /\ relayQ' # Trim(calls[RelayId].resp.body))
  /\ pending = NoInquiry => Peek(pending) = <<>>
  /\ \A c \in CallIds :
       calls[c].kind = "get_inquiry" =>
          calls[c].pc = "done" /\ calls[c].resp.status = "200"

C21_Witness ==
  /\ pending = [question |-> <<"q", " ">>, chan |-> 1]
  /\ calls[1].pc = "waiting"
  /\ relayPc = "reading"
  /\ relayQ = <<"q">>
  /\ calls[2].kind = "get_inquiry"
  /\ calls[2].resp = [status |-> "200", body |-> <<"q", " ">>]
  /\ chan[1].sender = "slot"

\* A send() of the relay loop returns an error: the poll's or the answer
\* post's, before the server has handled the request or after it has.
RelayError == RelayPollFailed \/ RelayPollLost \/ RelayPostFailed \/ RelayPostLost

\* The pending question's text is one the relay loop shows.
Presentable(slot) == slot # NoInquiry /\ Trim(slot.question) # <<>>

\* The relay's answer post took an inquiry and its response can be lost.
PostTookAndCanFail == ENABLED RelayPostLost /\ calls[RelayId].held # -1

\* C22 as claimed: an error of the relay's poll or answer post leaves the
\* loop at the top of its next iteration and run where it was, and the
\* inquiry whose answer post ends in the error is still pending.
C22_FailedPostStillPending ==
  /\ ~ENABLED (RelayError /\
                 \/ relayPc' # "top"
                 \/ runPc' # runPc \/ runResult' # runResult)
  /\ PostTookAndCanFail => pending.chan = calls[RelayId].held

\* C22 as amended: an error of the relay's poll or answer post cannot end the
\* loop and cannot change run's position or result: the loop is at the top of
\* its next iteration, and the error itself leaves the slot as it is. When
\* the post failed before it reached the server the question is pending as
\* before, and once the sleep of a later iteration has elapsed the poll can
\* fetch it again and the loop shows what the poll fetched. When the server
\* had handled the post and only the response was lost, the inquiry was
\* taken, its answer was sent, and it is no longer pending.
C22_RelayErrorGoesOn ==
  /\ ~ENABLED (RelayError /\
                 \/ relayPc' # "top"
                 \/ runPc' # runPc \/ runResult' # runResult
                 \/ pending' # pending \/ chan' # chan)
  /\ (Alive /\ relayPc = "get") => ENABLED RelayPollFailed
  /\ (Alive /\ relayPc = "post") => ENABLED RelayPostFailed
  /\ (Alive /\ relayPc = "polling" /\ calls[RelayId].pc = "done") =>
        ENABLED RelayPollLost
  /\ (Alive /\ relayPc = "posting" /\ calls[RelayId].pc = "done") =>
        ENABLED RelayPostLost
  /\ PostTookAndCanFail =>
        /\ pending.chan # calls[RelayId].held
        /\ chan[calls[RelayId].held].sender = "sent"
        /\ chan[calls[RelayId].held].value = relayA
  /\ (hist.postUnsent /\ Alive /\ srv = "serving" /\ relayPc = "get"
        /\ Presentable(pending)) =>
        ENABLED (RelayPoll /\ calls'[RelayId].resp.body = pending.question)
  /\ (Alive /\ relayPc = "polling" /\ Trim(calls[RelayId].resp.body) # <<>>) =>
        ENABLED (RelayPollDone /\ relayPc' = "reading"
                   /\ relayQ' = Trim(calls[RelayId].resp.body))

\* The answer post for question "q " failed, the question stayed pending, and
\* a later poll has shown it again.
C22_Witness ==
  /\ hist.postUnsent
  /\ pending = [question |-> <<"q", " ">>, chan |-> 1]
  /\ calls[1].pc = "waiting"
  /\ nCalls = 1
  /\ relayPc = "reading"
  /\ relayQ = <<"q">>
  /\ runPc = "join"

\* C23: when the relay's answer post has taken an inquiry, the inquiry it
\* took, whose poster gets the line the human entered, is one whose question
\* is the question the human was shown.
C23_AnswerReachesShownQuestion ==
  (relayPc = "posting" /\ calls[RelayId].held # -1) =>
     Trim(calls[calls[RelayId].held].arg) = relayQ

\* The relay loop shows the question of inquiry c to the human.
Shown(c) == relayPc = "reading" /\ relayQ = Trim(calls[c].arg)

\* The relay loop has been stopped, the server no longer serves, or the
\* process has ended.
RunOver == relayPc = "exited" \/ srv # "serving" \/ ~Alive

\* C24: under fair scheduling and without network failures, an inquiry that
\* is pending is eventually shown to the human, unless it is replaced or
\* taken first or the run is over; and once the relay's answer post has taken
\* an inquiry, its poster's request eventually ends with a response. This for
\* every question, the blank ones included.
C24_EveryInquiryPresented ==
  /\ \A c \in CallIds :
       (pending.chan = c) ~> (Shown(c) \/ pending.chan # c \/ RunOver)
  /\ \A c \in CallIds :
       (relayPc = "posting" /\ calls[RelayId].held = c) ~>
          (calls[c].pc = "done" \/ ~Alive)

\* What the loop does ensure: a pending inquiry whose question is not blank
\* after trimming is eventually shown, replaced or taken, unless the run is
\* over.
PresentableInquiryPresented ==
  \A c \in CallIds :
    (pending.chan = c /\ Presentable(pending)) ~>
       (Shown(c) \/ pending.chan # c \/ RunOver)

\* run signaled the stop while the relay loop was not at its select: its
\* poll's request was sent or the response on its way, it was waiting for the
\* human's line, or posting the answer.
StoppedMidIteration ==
  hist.relayAtNotify \in {"get", "polling", "reading", "post", "posting"}

\* C25: a stop that run signals while the relay loop is in the middle of an
\* iteration stays stored until the loop has exited; the loop does not sleep
\* again, so no sleep elapses and no other poll is sent (a poll is under way
\* only if it was when the stop came), at the top of its next iteration the
\* loop can only exit, and once it has exited run's wait on the relay task
\* can complete.
C25_StopNeverLost ==
  /\ (runPc = "await_relay" /\ relayPc # "exited") => permit
  /\ StoppedMidIteration =>
        /\ relayPc # "sleeping"
        /\ ~ENABLED RelaySleepElapsed
        /\ relayPc \in {"get", "polling"} => hist.relayAtNotify \in {"get", "polling"}
        /\ relayPc = "get" => hist.relayAtNotify = "get"
        /\ (relayPc = "top" /\ Alive) => ENABLED RelayExits /\ ~ENABLED RelayGoesOn
  /\ relayPc = "exited" => ~permit
  /\ (runPc = "await_relay" /\ relayPc = "exited") => ENABLED AwaitRelay

\* The stop came while the poll's request was sent and not yet handled; the
\* request failed because the server had resolved, the loop exited at its
\* next select and run returned.
C25_Witness ==
  /\ hist.relayAtNotify = "get"
  /\ relayPc = "exited"
  /\ runPc = "returned"
  /\ runResult = "ok"

\* Under fair scheduling run's wait on the relay task completes once the stop
\* was signaled.
StopLeadsToReturn == (runPc = "await_relay") ~> (runPc = "returned")

\* C26: on every table llm_router_table returns the default provider is a key
\* of the providers map, and no lookup on such a table ends in the panic of
\* expect.
C26_LookupNeverPanics ==
  /\ router.pc \in {"table", "done"} =>
        router.table.default_provider \in DOMAIN router.table.providers
  /\ router.pc = "done" => ~router.out.panic

\* C27: when a run that created its fork branch ends without a Completed
\* outcome (a Failure outcome, or an error of the container or the server),
\* the repository has the checked-out branch, the branches, the index and
\* the working tree it had when run was called, and in addition the fork
\* branch, which still exists.
C27_RepoUntouchedUnlessCompleted ==
  (git.pc = "run_done" /\ git.ending # "Completed") =>
     /\ git.repo.head = git.start.head
     /\ \A n \in DOMAIN git.start.refs : git.repo.refs[n] = git.start.refs[n]
     /\ git.repo.refs[git.base] = git.start.refs[git.base]
     /\ git.repo.wt = git.start.wt
     /\ git.repo.index = git.start.index
     /\ git.repo.tree = git.start.tree
     /\ DOMAIN git.repo.refs = DOMAIN git.start.refs \cup {ForkBranch}
     /\ ForkBranch \notin DOMAIN git.start.refs

\* A run on a repository with an unstaged change ended with a Failure
\* outcome after the agent had pushed its commit to the fork branch.
C27_Witness ==
  /\ git.pc = "run_done"
  /\ git.ending = "Failure"
  /\ git.base = "main"
  /\ git.start.refs = [n \in {"main"} |-> "c0"]
  /\ git.repo.refs = [n \in BranchNames |-> IF n = "main" THEN "c0" ELSE "c1"]
  /\ git.repo.head = "main"
  /\ git.start.index = "v1"
  /\ git.repo.wt = "v2"

====
